---- MODULE Spec2Model ----
(***************************************************************************)
(* Creator Spark Registry (src/analyzer.py): a JSON file of creator        *)
(* records and the five commands list, summary, add, boost and agenda.     *)
(*                                                                         *)
(* Representation.                                                         *)
(*   - a handle is a sequence of one-character strings, so that strip(),   *)
(*     startswith("@") and lower() are computed and not assumed;           *)
(*   - a date is its day number in the year 2026 (1 = 2026-01-01); the     *)
(*     file holds dates as ISO text, a sequence of ten characters;         *)
(*   - heat is a decimal held in thousandths (920 is 0.92); the file holds *)
(*     it rounded to hundredths, as round(heat, 2) does.                   *)
(***************************************************************************)
EXTENDS Integers, Sequences, FiniteSets, TLC

VARIABLES
    fstate,     \* the data file: "absent" or "json"
    file,       \* the payload list the file holds when fstate = "json"
    today,      \* date.today()
    last,       \* the last finished command: its arguments, exit and printed rows
    mem,        \* a Creator list in memory, to be saved
    procs       \* the invocations running at once: command, position, list

vars == <<fstate, file, today, last, mem, procs>>

----------------------------------------------------------------------------
(* Characters and handles *)

LowerChars == <<"a","b","c","d","e","f","g","h","i","j","k","l","m",
                "n","o","p","q","r","s","t","u","v","w","x","y","z">>

UpperChars == <<"A","B","C","D","E","F","G","H","I","J","K","L","M",
                "N","O","P","Q","R","S","T","U","V","W","X","Y","Z">>

Whitespace == {" ", "\t"}

\* the lower-case letter of each upper-case letter
LowerOf ==
    [c \in {UpperChars[i] : i \in 1..Len(UpperChars)} |->
        LowerChars[CHOOSE i \in 1..Len(UpperChars) : UpperChars[i] = c]]

\* str.lower() on one character
LowerChar(c) == IF c \in DOMAIN LowerOf THEN LowerOf[c] ELSE c

\* str.lower()
Lower(s) == [i \in 1..Len(s) |-> LowerChar(s[i])]

RECURSIVE LStrip(_)
LStrip(s) ==
    IF s # <<>> /\ Head(s) \in Whitespace THEN LStrip(Tail(s)) ELSE s

RECURSIVE RStrip(_)
RStrip(s) ==
    IF s # <<>> /\ s[Len(s)] \in Whitespace
    THEN RStrip(SubSeq(s, 1, Len(s) - 1))
    ELSE s

\* str.strip()
Strip(s) == RStrip(LStrip(s))

_normalize_handle(handle) ==
    LET h == Strip(handle)
    IN  IF h # <<>> /\ Head(h) = "@" THEN h ELSE <<"@">> \o h

----------------------------------------------------------------------------
(* Dates *)

MonthDays == <<31, 28, 31, 30, 31, 30, 31, 31, 30, 31, 30, 31>>

Digits == <<"0","1","2","3","4","5","6","7","8","9">>

DigitChar(n) == Digits[n + 1]

IsDigit(c) == \E n \in 0..9 : Digits[n + 1] = c

DigitVal(c) == CHOOSE n \in 0..9 : Digits[n + 1] = c

RECURSIVE SumDays(_)
SumDays(m) == IF m = 0 THEN 0 ELSE SumDays(m - 1) + MonthDays[m]

\* days of 2026 before the first of month m
DaysBeforeMonth == [m \in 1..12 |-> SumDays(m - 1)]

DaysBefore(m) == DaysBeforeMonth[m]

\* the month of day number d
MonthOf(d) == CHOOSE m \in 1..12 : DaysBefore(m) < d /\ d <= DaysBefore(m) + MonthDays[m]

\* the ISO text of each day of 2026
IsoText ==
    [d \in 1..365 |->
        LET m   == MonthOf(d)
            day == d - DaysBefore(m)
        IN  <<"2", "0", "2", "6", "-", DigitChar(m \div 10), DigitChar(m % 10),
              "-", DigitChar(day \div 10), DigitChar(day % 10)>>]

\* date.isoformat()
isoformat(d) == IsoText[d]

\* whether datetime.fromisoformat accepts the text (a date of 2026)
ValidIso(s) ==
    /\ Len(s) = 10
    /\ SubSeq(s, 1, 5) = <<"2", "0", "2", "6", "-">>
    /\ s[8] = "-"
    /\ \A i \in {6, 7, 9, 10} : IsDigit(s[i])
    /\ LET m == 10 * DigitVal(s[6]) + DigitVal(s[7])
           d == 10 * DigitVal(s[9]) + DigitVal(s[10])
       IN  m \in 1..12 /\ d \in 1..MonthDays[m]

\* datetime.fromisoformat(value).date()
fromisoformat(s) ==
    LET m == 10 * DigitVal(s[6]) + DigitVal(s[7])
        d == 10 * DigitVal(s[9]) + DigitVal(s[10])
    IN  DaysBefore(m) + d

\* an optional value: None, or Some(v)
None == <<>>

Some(v) == <<v>>

\* Python's truth value of an optional string: None and "" are false
Truthy(value) == value # None /\ value[1] # <<>>

\* whether _coerce_date raises ValueError
CoerceFails(value) == Truthy(value) /\ ~ValidIso(value[1])

_coerce_date(value, now) ==
    IF ~Truthy(value) THEN now ELSE fromisoformat(value[1])

----------------------------------------------------------------------------
(* Heat *)

\* the thousandths h in 5, 15, ..., 995 for which round(h / 1000, 2) rounds
\* upward: the binary double nearest to h / 1000 lies above the tie (or on it,
\* with an odd hundredth below)
HalfUp ==
    {5, 25, 35, 55, 65, 85, 95, 115, 135, 165, 195, 225, 255, 265, 275, 315,
     325, 335, 375, 385, 395, 405, 445, 455, 465, 505, 515, 525, 535, 545,
     555, 635, 645, 655, 665, 675, 685, 755, 765, 775, 785, 795, 805, 875,
     885, 895, 905, 915, 925, 935}

Abs(x) == IF x < 0 THEN -x ELSE x

\* round(heat, 2), in thousandths
Round2(heat) ==
    LET a  == Abs(heat)
        r  == a % 10
        lo == a - r
        up == IF r > 5 \/ (r = 5 /\ a \in HalfUp) THEN lo + 10 ELSE lo
    IN  IF heat < 0 THEN 0 - up ELSE up

----------------------------------------------------------------------------
(* Records and the store *)

DEFAULT_DATA ==
    << [handle |-> <<"@","f","j","o","r","d","s","k","e","t","c","h">>,
        platform |-> "Instagram", category |-> "watercolor timelapses",
        note |-> "Uploads 60-second coastal watercolor loops.",
        heat |-> 870,
        last_seen |-> <<"2","0","2","6","-","0","2","-","1","2">>,
        last_boosted |-> <<"2","0","2","6","-","0","2","-","0","4">>],
       [handle |-> <<"@","a","u","r","o","r","a","a","u","d","i","o">>,
        platform |-> "YouTube", category |-> "field recordings",
        note |-> "Ambient expeditions with crisp thumbnails.",
        heat |-> 920,
        last_seen |-> <<"2","0","2","6","-","0","2","-","1","1">>,
        last_boosted |-> <<"2","0","2","6","-","0","1","-","2","9">>],
       [handle |-> <<"@","n","o","r","t","h","e","r","n","k","n","o","t","s">>,
        platform |-> "X", category |-> "macro weaving",
        note |-> "Threading reels pair textile close-ups w/ founder tips.",
        heat |-> 740,
        last_seen |-> <<"2","0","2","6","-","0","2","-","0","8">>,
        last_boosted |-> <<"2","0","2","6","-","0","2","-","0","1">>] >>

\* date(2026, m, d)
Date(m, d) == DaysBefore(m) + d

\* Creator.staleness_days
staleness_days(c, now) == now - c.last_boosted

\* Creator.to_payload
to_payload(c) ==
    [handle |-> c.handle, platform |-> c.platform, category |-> c.category,
     note |-> c.note, heat |-> Round2(c.heat),
     last_seen |-> isoformat(c.last_seen),
     last_boosted |-> isoformat(c.last_boosted)]

\* the payload list save_creators writes
save_creators(creators) == [i \in 1..Len(creators) |-> to_payload(creators[i])]

\* the file's content after _ensure_dataset
_ensure_dataset(fs, f) == IF fs = "absent" THEN DEFAULT_DATA ELSE f

\* variant of ParseEntries: last_boosted read from the last_seen field
ParseEntriesOneDate(raw, now) ==
    [i \in 1..Len(raw) |->
        [handle |-> raw[i].handle, platform |-> raw[i].platform,
         category |-> raw[i].category, note |-> raw[i].note,
         heat |-> raw[i].heat,
         last_seen |-> _coerce_date(Some(raw[i].last_seen), now),
         last_boosted |-> _coerce_date(Some(raw[i].last_seen), now)]]

\* the Creator list load_creators builds from the file's payloads
ParseEntries(raw, now) ==
    [i \in 1..Len(raw) |->
        [handle |-> raw[i].handle, platform |-> raw[i].platform,
         category |-> raw[i].category, note |-> raw[i].note,
         heat |-> raw[i].heat,
         last_seen |-> _coerce_date(Some(raw[i].last_seen), now),
         last_boosted |-> _coerce_date(Some(raw[i].last_boosted), now)]]

load_creators(fs, f, now) == ParseEntries(_ensure_dataset(fs, f), now)

----------------------------------------------------------------------------
(* Sorting, slicing and max as Python computes them *)

\* tuple comparison of two-component sort keys
KeyGe(a, b) == a[1] > b[1] \/ (a[1] = b[1] /\ a[2] >= b[2])

\* x placed behind every entry whose key is greater than or equal to its own
RECURSIVE InsertDesc(_, _)
InsertDesc(sorted, x) ==
    IF sorted = <<>> THEN <<x>>
    ELSE IF KeyGe(Head(sorted).key, x.key)
         THEN <<Head(sorted)>> \o InsertDesc(Tail(sorted), x)
         ELSE <<x>> \o sorted

RECURSIVE SortKeyed(_)
SortKeyed(keyed) ==
    IF keyed = <<>> THEN <<>>
    ELSE InsertDesc(SortKeyed(SubSeq(keyed, 1, Len(keyed) - 1)), keyed[Len(keyed)])

\* list.sort(key=..., reverse=True): descending, equal keys keep their order
SortDesc(keyed) ==
    LET r == SortKeyed(keyed) IN [i \in 1..Len(r) |-> r[i].item]

HeatKey(c, now) == <<c.heat, 0>>

StalenessKey(c, now) == <<staleness_days(c, now), 0>>

AgendaKey(c, now) == <<staleness_days(c, now), c.heat>>

\* seq[:n]
Take(seq, n) ==
    IF n >= 0
    THEN SubSeq(seq, 1, IF n < Len(seq) THEN n ELSE Len(seq))
    ELSE SubSeq(seq, 1, IF Len(seq) + n > 0 THEN Len(seq) + n ELSE 0)

RECURSIVE Filter(_, _)
\* the entries of seq whose index is in keep, in order
Filter(seq, keep) ==
    IF seq = <<>> THEN <<>>
    ELSE Filter(SubSeq(seq, 1, Len(seq) - 1), keep)
         \o (IF Len(seq) \in keep THEN <<seq[Len(seq)]>> ELSE <<>>)

RECURSIVE MaxIndex(_, _)
\* max(..., key=...): the index of the first entry with the greatest key
MaxIndex(keys, n) ==
    IF n = 1 THEN 1
    ELSE LET best == MaxIndex(keys, n - 1)
         IN  IF keys[n] > keys[best] THEN n ELSE best

----------------------------------------------------------------------------
(* Commands, as functions of the loaded list *)

\* variant of ListFilter: the bound is exclusive
ListFilterStrict(creators, min_heat) ==
    Filter(creators, {i \in 1..Len(creators) : creators[i].heat > min_heat})

\* cmd_list, line 132
ListFilter(creators, min_heat) ==
    Filter(creators, {i \in 1..Len(creators) : creators[i].heat >= min_heat})

\* variant of ListSort: reverse=True left out
ListSortAscending(filtered, sort, now) ==
    LET r == SortDesc([i \in 1..Len(filtered) |->
                 [key |-> IF sort = "heat" THEN HeatKey(filtered[i], now)
                          ELSE StalenessKey(filtered[i], now),
                  item |-> filtered[i]]])
    IN  [i \in 1..Len(r) |-> r[Len(r) + 1 - i]]

\* cmd_list, lines 134-137
ListSort(filtered, sort, now) ==
    SortDesc([i \in 1..Len(filtered) |->
        [key |-> IF sort = "heat" THEN HeatKey(filtered[i], now)
                 ELSE StalenessKey(filtered[i], now),
         item |-> filtered[i]]])

\* the rows cmd_list prints (none: "No creators match the current filters.")
ListRows(creators, opts, now) ==
    LET sorted == ListSort(ListFilter(creators, opts.min_heat), opts.sort, now)
    IN  IF opts.limit # None /\ opts.limit[1] # 0
        THEN Take(sorted, opts.limit[1])
        ELSE sorted

\* variant of Hottest: the last of the records with the greatest heat
HottestLast(creators) ==
    LET best == CHOOSE i \in 1..Len(creators) :
                   /\ \A j \in 1..Len(creators) : creators[j].heat <= creators[i].heat
                   /\ \A j \in (i + 1)..Len(creators) : creators[j].heat < creators[i].heat
    IN  creators[best]

\* cmd_summary, line 165
Hottest(creators) ==
    creators[MaxIndex([i \in 1..Len(creators) |-> creators[i].heat], Len(creators))]

\* cmd_summary, line 166
Stalest(creators, now) ==
    creators[MaxIndex([i \in 1..Len(creators) |-> staleness_days(creators[i], now)],
                      Len(creators))]

\* variant of FindHandle: handles compared without lower()
FindHandleExact(creators, handle) ==
    LET found == {i \in 1..Len(creators) : creators[i].handle = handle}
    IN  IF found = {} THEN 0 ELSE CHOOSE i \in found : \A j \in found : i <= j

\* the index of the first creator with the handle, ignoring case; 0 if none
FindHandle(creators, handle) ==
    LET target == Lower(handle)
        found  == {i \in 1..Len(creators) : Lower(creators[i].handle) = target}
    IN  IF found = {} THEN 0 ELSE CHOOSE i \in found : \A j \in found : i <= j

\* variant of AddOutcome: the new record is put first
AddOutcomePrepend(creators, a, now) ==
    LET handle == _normalize_handle(a.handle)
    IN  IF FindHandle(creators, handle) # 0
        THEN [exit |-> "fatal", creators |-> creators]
        ELSE IF CoerceFails(a.last_seen)
                  \/ (Truthy(a.last_boosted) /\ CoerceFails(a.last_boosted))
        THEN [exit |-> "error", creators |-> creators]
        ELSE [exit |-> "ok",
              creators |-> <<[handle |-> handle, platform |-> a.platform,
                   category |-> a.category, note |-> a.note, heat |-> a.heat,
                   last_seen |-> _coerce_date(a.last_seen, now),
                   last_boosted |-> IF Truthy(a.last_boosted)
                                    THEN _coerce_date(a.last_boosted, now)
                                    ELSE now]>> \o creators]

\* cmd_add on the loaded list, lines 180-194: the exit and the list to save
AddOutcome(creators, a, now) ==
    LET handle == _normalize_handle(a.handle)
    IN  IF FindHandle(creators, handle) # 0
        THEN [exit |-> "fatal", creators |-> creators]
        ELSE IF CoerceFails(a.last_seen)
                  \/ (Truthy(a.last_boosted) /\ CoerceFails(a.last_boosted))
        THEN [exit |-> "error", creators |-> creators]
        ELSE [exit |-> "ok",
              creators |-> Append(creators,
                  [handle |-> handle, platform |-> a.platform,
                   category |-> a.category, note |-> a.note, heat |-> a.heat,
                   last_seen |-> _coerce_date(a.last_seen, now),
                   last_boosted |-> IF Truthy(a.last_boosted)
                                    THEN _coerce_date(a.last_boosted, now)
                                    ELSE now])]

\* variant of BoostOutcome: StopIteration is swallowed
BoostIgnoreMissing(creators, b, now) ==
    LET i == FindHandle(creators, _normalize_handle(b.handle))
    IN  IF i = 0
        THEN [exit |-> "ok", creators |-> creators]
        ELSE [exit |-> "ok",
              creators |-> [creators EXCEPT
                  ![i].last_boosted = now,
                  ![i].note = IF b.note # None /\ b.note[1] # "" THEN b.note[1] ELSE @]]

\* variant of BoostOutcome: last_boosted is left as it was
BoostKeepDate(creators, b, now) ==
    LET i == FindHandle(creators, _normalize_handle(b.handle))
    IN  IF i = 0
        THEN [exit |-> "fatal", creators |-> creators]
        ELSE [exit |-> "ok",
              creators |-> [creators EXCEPT
                  ![i].note = IF b.note # None /\ b.note[1] # "" THEN b.note[1] ELSE @]]

\* cmd_boost on the loaded list, lines 201-209
BoostOutcome(creators, b, now) ==
    LET i == FindHandle(creators, _normalize_handle(b.handle))
    IN  IF i = 0
        THEN [exit |-> "fatal", creators |-> creators]
        ELSE [exit |-> "ok",
              creators |-> [creators EXCEPT
                  ![i].last_boosted = now,
                  ![i].note = IF b.note # None /\ b.note[1] # "" THEN b.note[1] ELSE @]]

\* variant of AgendaQueue: the cutoff day itself is excluded
AgendaQueueStrict(creators, window, now) ==
    Filter(creators, {i \in 1..Len(creators) : creators[i].last_boosted < now - window})

\* cmd_agenda, lines 216-217
AgendaQueue(creators, window, now) ==
    Filter(creators, {i \in 1..Len(creators) : creators[i].last_boosted <= now - window})

\* the rows cmd_agenda prints (none: "All creators were boosted within ...")
AgendaRows(creators, opts, now) ==
    LET queued == AgendaQueue(creators, opts.window, now)
        sorted == SortDesc([i \in 1..Len(queued) |->
                      [key |-> AgendaKey(queued[i], now), item |-> queued[i]]])
    IN  Take(sorted, opts.limit)

----------------------------------------------------------------------------
(* Bounds and inputs *)

\* the most records the store grows to
MaxRecords == 4

\* the most records the store grows to when only agenda is observed
MaxAgendaRecords == 6

\* the lists save/load is applied to have at most this many records
MaxListLen == 2

\* date.today(): 2026-02-13
Today0 == DaysBefore(2) + 13

AddHandles ==
    { <<"n","o","v","a">>, <<" ","@","N","o","v","a","\t">>, <<"@","k","i","t">>,
      <<"F","J","O","R","D","S","K","E","T","C","H">> }

BoostHandles ==
    { <<"N","O","V","A"," ">>, <<"@","A","U","R","O","R","A","a","u","d","i","o">>,
      <<"g","h","o","s","t">> }

\* heat arguments, in thousandths
AddHeats == {-500, -4, 920, 955}

\* 2026-01-29, 2026-03-01 and text that is no date
AddLastBoosted ==
    { None,
      Some(<<"2","0","2","6","-","0","1","-","2","9">>),
      Some(<<"2","0","2","6","-","0","3","-","0","1">>),
      Some(<<"s","o","o","n">>) }

BoostNotes == { None, Some(""), Some("thanks") }

ListOpts ==
    { [sort |-> "heat", min_heat |-> 0, limit |-> None],
      [sort |-> "heat", min_heat |-> 900, limit |-> None],
      [sort |-> "staleness", min_heat |-> 0, limit |-> None],
      [sort |-> "heat", min_heat |-> 0, limit |-> Some(2)],
      [sort |-> "heat", min_heat |-> 920, limit |-> None],
      [sort |-> "staleness", min_heat |-> 0, limit |-> Some(0)] }

AGENDA_WINDOW_DEFAULT == 7

AGENDA_LIMIT_DEFAULT == 5

AgendaOpts ==
    { [window |-> AGENDA_WINDOW_DEFAULT, limit |-> AGENDA_LIMIT_DEFAULT],
      [window |-> 0, limit |-> AGENDA_LIMIT_DEFAULT],
      [window |-> 0, limit |-> 2] }

AddArgs(h, heat, lb) ==
    [handle |-> h, platform |-> "TikTok", category |-> "clay", note |-> "new",
     heat |-> heat, last_seen |-> Some(isoformat(today)), last_boosted |-> lb]

----------------------------------------------------------------------------
(* One invocation after another *)

NoCommand == [cmd |-> "none", exit |-> "ok", args |-> <<>>, rows |-> <<>>]

\* what load_creators reads
Stored == _ensure_dataset(fstate, file)

Init ==
    /\ fstate = "absent"
    /\ file = <<>>
    /\ today = Today0
    /\ last = NoCommand
    /\ mem = <<>>
    /\ procs = <<>>

cmd_list(opts) ==
    LET creators == load_creators(fstate, file, today)
    IN  /\ fstate' = "json"
        /\ file' = Stored
        /\ last' = [cmd |-> "list", exit |-> "ok", args |-> opts,
                    rows |-> ListRows(creators, opts, today)]
        /\ UNCHANGED <<today, mem, procs>>

cmd_summary ==
    LET creators == load_creators(fstate, file, today)
    IN  /\ fstate' = "json"
        /\ file' = Stored
        /\ last' = IF creators = <<>>
                   THEN [cmd |-> "summary", exit |-> "error", args |-> <<>>, rows |-> <<>>]
                   ELSE [cmd |-> "summary", exit |-> "ok", args |-> <<>>,
                         rows |-> <<Hottest(creators), Stalest(creators, today)>>]
        /\ UNCHANGED <<today, mem, procs>>

cmd_add(a) ==
    LET creators == load_creators(fstate, file, today)
        r == AddOutcome(creators, a, today)
    IN  /\ fstate' = "json"
        /\ file' = IF r.exit = "ok" THEN save_creators(r.creators) ELSE Stored
        /\ last' = [cmd |-> "add", exit |-> r.exit, args |-> a.handle, rows |-> <<>>]
        /\ UNCHANGED <<today, mem, procs>>

cmd_boost(b) ==
    LET creators == load_creators(fstate, file, today)
        r == BoostOutcome(creators, b, today)
    IN  /\ fstate' = "json"
        /\ file' = IF r.exit = "ok" THEN save_creators(r.creators) ELSE Stored
        /\ last' = [cmd |-> "boost", exit |-> r.exit, args |-> b.handle, rows |-> <<>>]
        /\ UNCHANGED <<today, mem, procs>>

cmd_agenda(opts) ==
    LET creators == load_creators(fstate, file, today)
    IN  /\ fstate' = "json"
        /\ file' = Stored
        /\ last' = [cmd |-> "agenda", exit |-> "ok", args |-> opts,
                    rows |-> AgendaRows(creators, opts, today)]
        /\ UNCHANGED <<today, mem, procs>>

List == \E opts \in ListOpts : cmd_list(opts)

Summary == cmd_summary

Add ==
    /\ Len(Stored) < MaxRecords
    /\ \E h \in AddHandles, heat \in AddHeats, lb \in AddLastBoosted :
          cmd_add(AddArgs(h, heat, lb))

Boost ==
    \E h \in BoostHandles, n \in BoostNotes : cmd_boost([handle |-> h, note |-> n])

Agenda == \E opts \in AgendaOpts : cmd_agenda(opts)

Next == List \/ Summary \/ Add \/ Boost \/ Agenda

Spec == Init /\ [][Next]_vars

----------------------------------------------------------------------------
(* Properties of one invocation after another *)

DefaultListOpts == [sort |-> "heat", min_heat |-> 0, limit |-> None]

\* whether some record of the payload list has the handle, ignoring case
HasHandle(f, handle) ==
    \E i \in 1..Len(f) : Lower(f[i].handle) = Lower(handle)

\* whether the printed rows hold a row for the handle
Shows(rows, handle) == \E i \in 1..Len(rows) : rows[i].handle = handle

\* C1: no two stored records have handles that are equal ignoring case.
HandlesUnique ==
    \A i, j \in 1..Len(file) :
        i # j => Lower(file[i].handle) # Lower(file[j].handle)

\* an add was refused for a handle that differs from a stored one only in case
HandlesUniqueWitness ==
    /\ last.cmd = "add" /\ last.exit = "fatal"
    /\ \E i \in 1..Len(file) :
          /\ file[i].handle # _normalize_handle(last.args)
          /\ Lower(file[i].handle) = Lower(_normalize_handle(last.args))

\* C2: an add of a handle that is stored (ignoring case) and a boost of a handle
\* that is not stored both abort, and the stored list is what it was.
FatalErrorsKeepStore ==
    [][ last' # last =>
          LET handle == _normalize_handle(last'.args)
          IN  /\ (last'.cmd = "add" /\ HasHandle(Stored, handle))
                    => (last'.exit = "fatal" /\ file' = Stored)
              /\ (last'.cmd = "boost" /\ ~HasHandle(Stored, handle))
                    => (last'.exit = "fatal" /\ file' = Stored) ]_vars

\* a boost of an unknown handle was refused on a store that holds an added record
FatalErrorsWitness ==
    /\ last.cmd = "boost" /\ last.exit = "fatal"
    /\ Len(file) > Len(DEFAULT_DATA)
    /\ ~HasHandle(file, _normalize_handle(last.args))

\* C3 as stated: a default list shows a row for every creator that add stored.
AddedAlwaysListed ==
    (last.cmd = "list" /\ last.args = DefaultListOpts) =>
        \A i \in (Len(DEFAULT_DATA) + 1)..Len(file) : Shows(last.rows, file[i].handle)

\* C3 amended: a default list shows a row for every creator that add stored
\* with a heat that, rounded to two decimals, is at least 0.0.
AddedListedFromZero ==
    (last.cmd = "list" /\ last.args = DefaultListOpts) =>
        \A i \in (Len(DEFAULT_DATA) + 1)..Len(file) :
            file[i].heat >= 0 => Shows(last.rows, file[i].handle)

\* a default list printed an added creator whose heat -0.004 is stored as 0.0
AddedListedWitness ==
    /\ last.cmd = "list" /\ last.args = DefaultListOpts
    /\ \E i \in (Len(DEFAULT_DATA) + 1)..Len(file) :
          file[i].heat = 0 /\ Shows(last.rows, file[i].handle)

\* C4: after a successful boost the record with the handle (ignoring case) has
\* last_boosted equal to the current date and staleness_days 0.
BoostedToday ==
    (last.cmd = "boost" /\ last.exit = "ok") =>
        LET creators == load_creators(fstate, file, today)
            handle   == _normalize_handle(last.args)
        IN  /\ HasHandle(file, handle)
            /\ \A i \in 1..Len(creators) :
                  Lower(creators[i].handle) = Lower(handle) =>
                      /\ creators[i].last_boosted = today
                      /\ staleness_days(creators[i], today) = 0

\* an added creator was boosted through a handle in another case
BoostedTodayWitness ==
    /\ last.cmd = "boost" /\ last.exit = "ok"
    /\ \E i \in (Len(DEFAULT_DATA) + 1)..Len(file) :
          /\ Lower(file[i].handle) = Lower(_normalize_handle(last.args))
          /\ file[i].handle # _normalize_handle(last.args)
          /\ file[i].last_boosted = isoformat(today)

\* C7: summary's hottest has the greatest heat and its stalest the greatest
\* staleness_days of all stored records, each the first such in stored order.
SummaryPicksMax ==
    (last.cmd = "summary" /\ last.exit = "ok") =>
        LET creators == load_creators(fstate, file, today)
            n        == Len(creators)
            hot      == CHOOSE i \in 1..n : creators[i] = last.rows[1]
            stale    == CHOOSE i \in 1..n : creators[i] = last.rows[2]
        IN  /\ \E i \in 1..n : creators[i] = last.rows[1]
            /\ \E i \in 1..n : creators[i] = last.rows[2]
            /\ \A j \in 1..n : creators[j].heat <= creators[hot].heat
            /\ \A j \in 1..(hot - 1) : creators[j].heat < creators[hot].heat
            /\ \A j \in 1..n :
                  staleness_days(creators[j], today) <= staleness_days(creators[stale], today)
            /\ \A j \in 1..(stale - 1) :
                  staleness_days(creators[j], today) < staleness_days(creators[stale], today)

\* summary ran on a store where two records tie for the greatest heat and two
\* for the greatest staleness
SummaryTieWitness ==
    /\ last.cmd = "summary" /\ last.exit = "ok"
    /\ \E i, j \in 1..Len(file) :
          i # j /\ file[i].heat = last.rows[1].heat /\ file[j].heat = last.rows[1].heat
    /\ \E i, j \in 1..Len(file) :
          /\ i # j
          /\ file[i].last_boosted = isoformat(last.rows[2].last_boosted)
          /\ file[j].last_boosted = isoformat(last.rows[2].last_boosted)

\* C8: list --min-heat m without --limit shows exactly the stored records whose
\* heat is at least m, in descending heat order under the default sort; on the
\* seed dataset --min-heat 0.9 shows @auroraaudio (0.92) alone.
ListMinHeatExact ==
    (last.cmd = "list" /\ last.args.limit = None) =>
        LET creators == load_creators(fstate, file, today)
            rows     == last.rows
            wanted   == {i \in 1..Len(creators) : creators[i].heat >= last.args.min_heat}
        IN  /\ Len(rows) = Cardinality(wanted)
            /\ {rows[i] : i \in 1..Len(rows)} = {creators[i] : i \in wanted}
            /\ last.args.sort = "heat" =>
                  \A i, j \in 1..Len(rows) : i < j => rows[i].heat >= rows[j].heat
            /\ (file = DEFAULT_DATA /\ last.args.sort = "heat" /\ last.args.min_heat = 900) =>
                  /\ Len(rows) = 1
                  /\ rows[1].handle = <<"@","a","u","r","o","r","a","a","u","d","i","o">>
                  /\ rows[1].heat = 920

\* list --min-heat 0.92 printed two records, one of them with heat 0.92 exactly
ListMinHeatWitness ==
    /\ last.cmd = "list" /\ last.args.limit = None /\ last.args.min_heat = 920
    /\ Len(last.rows) = 2
    /\ last.rows[2].heat = 920

\* C9: no command removes a record: the stored handles stay, in their order; the
\* count grows by one on a successful add, which appends, and on nothing else.
NeverDeleted ==
    [][ LET old == Stored
            new == file'
        IN  /\ Len(new) >= Len(old)
            /\ Len(new) <= Len(old) + 1
            /\ \A i \in 1..Len(old) : new[i].handle = old[i].handle
            /\ Len(new) = Len(old) + 1 =>
                  /\ last'.cmd = "add" /\ last'.exit = "ok"
                  /\ new[Len(new)].handle = _normalize_handle(last'.args)
            /\ (last' # last /\ last'.cmd = "add" /\ last'.exit = "ok") =>
                  Len(new) = Len(old) + 1 ]_vars

\* a successful add grew the store
NeverDeletedWitness ==
    /\ last.cmd = "add" /\ last.exit = "ok"
    /\ Len(file) = Len(DEFAULT_DATA) + 1
    /\ file[Len(file)].handle = _normalize_handle(last.args)

----------------------------------------------------------------------------
(* The store under add and boost, observed by agenda --window 0 *)

AgendaAddHandles == { <<"i","v","y">>, <<"@","k","i","t">>, <<"n","o","v","a">>, <<"Z","e","d">> }

AgendaAllOpts == [window |-> 0, limit |-> AGENDA_LIMIT_DEFAULT]

AgendaAdd ==
    /\ Len(Stored) < MaxAgendaRecords
    /\ \E h \in AgendaAddHandles,
          lb \in {None, Some(<<"2","0","2","6","-","0","3","-","0","1">>)} :
          cmd_add(AddArgs(h, 500, lb))

AgendaBoost ==
    \E h \in {<<"I","V","Y">>, <<"g","h","o","s","t">>} :
        cmd_boost([handle |-> h, note |-> None])

AgendaAll == cmd_agenda(AgendaAllOpts)

NextAgenda == AgendaAdd \/ AgendaBoost \/ AgendaAll

SpecAgenda == Init /\ [][NextAgenda]_vars

\* C5 as stated: agenda --window 0 with the default limit prints every stored
\* record.
AgendaShowsAll ==
    (last.cmd = "agenda" /\ last.args = AgendaAllOpts) =>
        \A i \in 1..Len(file) : Shows(last.rows, file[i].handle)

\* C5 amended: agenda --window 0 with the default limit prints stored records
\* whose last_boosted is not after today, and no others: all of them when they
\* are at most 5, and otherwise 5 of them, none of which comes behind an
\* omitted one in the order by (staleness_days, heat).
AgendaShowsDueUpToLimit ==
    (last.cmd = "agenda" /\ last.args = AgendaAllOpts) =>
        LET creators == load_creators(fstate, file, today)
            due      == {i \in 1..Len(creators) : creators[i].last_boosted <= today}
            rows     == last.rows
            shown    == {i \in due : \E k \in 1..Len(rows) : rows[k] = creators[i]}
        IN  /\ \A k \in 1..Len(rows) : \E i \in due : rows[k] = creators[i]
            /\ Len(rows) = Cardinality(shown)
            /\ Cardinality(due) <= AGENDA_LIMIT_DEFAULT => shown = due
            /\ Cardinality(due) > AGENDA_LIMIT_DEFAULT =>
                  Cardinality(shown) = AGENDA_LIMIT_DEFAULT
            /\ \A i \in shown, j \in due \ shown :
                  KeyGe(AgendaKey(creators[i], today), AgendaKey(creators[j], today))

\* six records are due, one of them boosted today, and the agenda printed five
AgendaLimitWitness ==
    /\ last.cmd = "agenda" /\ last.args = AgendaAllOpts
    /\ Len(file) = 6
    /\ \A i \in 1..Len(file) : fromisoformat(file[i].last_boosted) <= today
    /\ Len(last.rows) = AGENDA_LIMIT_DEFAULT

----------------------------------------------------------------------------
(* save_creators followed by load_creators, on arbitrary lists *)

\* heats with a third decimal, some of them ties; dates at the ends of months
RoundTripCreators ==
    { [handle |-> <<"@","N","o","v","a">>, platform |-> "X", category |-> "",
       note |-> "w/ tips", heat |-> h, last_seen |-> ls, last_boosted |-> lb] :
         h \in {-4, 125, 745, 875},
         ls \in {Date(1, 1), Date(2, 28), Date(3, 1), Date(12, 31)},
         lb \in {Today0, Date(10, 31)} }

RECURSIVE ListsUpTo(_, _)
\* the lists of at most n members of S
ListsUpTo(S, n) ==
    IF n = 0 THEN {<<>>}
    ELSE LET shorter == ListsUpTo(S, n - 1)
         IN  shorter \cup {Append(l, x) : l \in shorter, x \in S}

InitRoundTrip ==
    /\ fstate = "absent"
    /\ file = <<>>
    /\ today = Today0
    /\ last = NoCommand
    /\ mem \in ListsUpTo(RoundTripCreators, MaxListLen)
    /\ procs = <<>>

\* save_creators(mem)
Save ==
    /\ last.cmd = "none"
    /\ fstate' = "json"
    /\ file' = save_creators(mem)
    /\ last' = [cmd |-> "save", exit |-> "ok", args |-> <<>>, rows |-> <<>>]
    /\ UNCHANGED <<today, mem, procs>>

\* load_creators(); the rows are the list it returns
Load ==
    /\ last.cmd = "save"
    /\ fstate' = "json"
    /\ file' = Stored
    /\ last' = [cmd |-> "load", exit |-> "ok", args |-> file,
                rows |-> load_creators(fstate, file, today)]
    /\ UNCHANGED <<today, mem, procs>>

\* save_creators of the loaded list; args keeps what the first save wrote
SaveAgain ==
    /\ last.cmd = "load"
    /\ fstate' = "json"
    /\ file' = save_creators(last.rows)
    /\ last' = [last EXCEPT !.cmd = "resave"]
    /\ UNCHANGED <<today, mem, procs>>

NextRoundTrip == Save \/ Load \/ SaveAgain

SpecRoundTrip == InitRoundTrip /\ [][NextRoundTrip]_vars

\* C6: save then load gives a list of the same length and order whose records
\* have the saved handle, platform, category, note, last_seen and last_boosted
\* and the saved heat rounded to two decimals; saving the loaded list writes
\* the same content again.
RoundTrip ==
    last.cmd \in {"load", "resave"} =>
        LET loaded == last.rows
        IN  /\ Len(loaded) = Len(mem)
            /\ \A i \in 1..Len(mem) :
                  /\ loaded[i].handle = mem[i].handle
                  /\ loaded[i].platform = mem[i].platform
                  /\ loaded[i].category = mem[i].category
                  /\ loaded[i].note = mem[i].note
                  /\ loaded[i].last_seen = mem[i].last_seen
                  /\ loaded[i].last_boosted = mem[i].last_boosted
                  /\ loaded[i].heat = Round2(mem[i].heat)
                  /\ Round2(loaded[i].heat) = Round2(mem[i].heat)
            /\ last.cmd = "resave" => file = last.args

\* two records were saved, loaded and saved again, one with heat 0.875 (stored
\* as 0.88) and one with 0.745 (stored as 0.74)
RoundTripWitness ==
    /\ last.cmd = "resave"
    /\ Len(mem) = 2
    /\ mem[1].heat = 875 /\ last.rows[1].heat = 880
    /\ mem[2].heat = 745 /\ last.rows[2].heat = 740
    /\ mem[1].last_seen # mem[1].last_boosted

----------------------------------------------------------------------------
(* Two invocations at once: each loads, then aborts or saves; a load and a  *)
(* save are each one step, and nothing orders the steps of the two          *)

Procs == {1, 2}

ConcCommands ==
    { [cmd |-> "add", handle |-> <<"n","o","v","a">>, note |-> None],
      [cmd |-> "add", handle |-> <<" ","@","N","o","v","a","\t">>, note |-> None],
      [cmd |-> "add", handle |-> <<"@","k","i","t">>, note |-> None],
      [cmd |-> "boost", handle |-> <<"N","O","V","A"," ">>, note |-> None],
      [cmd |-> "boost", handle |-> <<"@","A","U","R","O","R","A","a","u","d","i","o">>,
       note |-> Some("thanks")] }

\* what the command computes from the list it holds: cmd_add lines 180-194,
\* cmd_boost lines 201-209
Outcome(c, creators, now) ==
    IF c.cmd = "add"
    THEN AddOutcome(creators, AddArgs(c.handle, 920, None), now)
    ELSE BoostOutcome(creators, [handle |-> c.handle, note |-> c.note], now)

InitConc ==
    /\ fstate = "absent"
    /\ file = <<>>
    /\ today = Today0
    /\ last = NoCommand
    /\ mem = <<>>
    /\ procs \in [Procs -> {[command |-> c, pc |-> "start", exit |-> "", creators |-> <<>>,
                             seen |-> 0] : c \in ConcCommands}]

\* load_creators() in process p; seen counts the saves that came before it
ConcLoad(p) ==
    /\ procs[p].pc = "start"
    /\ fstate' = "json"
    /\ file' = Stored
    /\ procs' = [procs EXCEPT ![p].pc = "loaded",
                              ![p].creators = load_creators(fstate, file, today),
                              ![p].seen = Len(last.args)]
    /\ UNCHANGED <<today, last, mem>>

\* raise SystemExit in process p
ConcAbort(p) ==
    /\ procs[p].pc = "loaded"
    /\ Outcome(procs[p].command, procs[p].creators, today).exit # "ok"
    /\ procs' = [procs EXCEPT ![p].pc = "done", ![p].exit = "fatal"]
    /\ UNCHANGED <<fstate, file, today, last, mem>>

\* variant of ConcSave: the new records are appended to the file as it is
ConcSaveAppend(p) ==
    LET r == Outcome(procs[p].command, procs[p].creators, today)
    IN  /\ procs[p].pc = "loaded"
        /\ r.exit = "ok"
        /\ fstate' = "json"
        /\ file' = file \o SubSeq(save_creators(r.creators), Len(procs[p].creators) + 1,
                                  Len(r.creators))
        /\ procs' = [procs EXCEPT ![p].pc = "done", ![p].exit = "ok",
                                  ![p].creators = r.creators]
        /\ last' = [cmd |-> "save", exit |-> "ok", args |-> Append(last.args, p),
                    rows |-> <<>>]
        /\ UNCHANGED <<today, mem>>

\* the mutation and save_creators(creators) in process p; args lists the savers
ConcSave(p) ==
    LET r == Outcome(procs[p].command, procs[p].creators, today)
    IN  /\ procs[p].pc = "loaded"
        /\ r.exit = "ok"
        /\ fstate' = "json"
        /\ file' = save_creators(r.creators)
        /\ procs' = [procs EXCEPT ![p].pc = "done", ![p].exit = "ok",
                                  ![p].creators = r.creators]
        /\ last' = [cmd |-> "save", exit |-> "ok", args |-> Append(last.args, p),
                    rows |-> <<>>]
        /\ UNCHANGED <<today, mem>>

NextConc == \E p \in Procs : ConcLoad(p) \/ ConcAbort(p) \/ ConcSave(p)

SpecConc == InitConc /\ [][NextConc]_vars

\* C10: when both invocations have finished, the file is the list the last
\* saver wrote; if both loaded before either saved, it is what the last saver's
\* command alone makes of the seed dataset, so the other's mutation is lost;
\* and two such adds of one handle both succeed.
LastWriterWins ==
    ((\A p \in Procs : procs[p].pc = "done") /\ last.args # <<>>) =>
        LET w     == last.args[Len(last.args)]
            alone == Outcome(procs[w].command,
                             load_creators("absent", <<>>, today), today)
            blind == \A p \in Procs : procs[p].seen = 0
        IN  /\ file = save_creators(procs[w].creators)
            /\ (blind /\ Len(last.args) = 2) => file = save_creators(alone.creators)
            /\ ( /\ blind
                 /\ \A p \in Procs : procs[p].command.cmd = "add"
                 /\ \A p, q \in Procs :
                       Lower(_normalize_handle(procs[p].command.handle))
                         = Lower(_normalize_handle(procs[q].command.handle)) )
                  => \A p \in Procs : procs[p].exit = "ok"

\* two adds of one handle in two cases both loaded first and both saved: the
\* file holds the second saver's record alone
LastWriterWinsWitness ==
    /\ \A p \in Procs : procs[p].pc = "done"
    /\ last.args = <<1, 2>>
    /\ \A p \in Procs : procs[p].seen = 0 /\ procs[p].command.cmd = "add"
    /\ procs[1].command.handle = <<"n","o","v","a">>
    /\ procs[2].command.handle = <<" ","@","N","o","v","a","\t">>
    /\ Len(file) = Len(DEFAULT_DATA) + 1
    /\ file[Len(file)].handle = <<"@","N","o","v","a">>

====
